---- MODULE Spec2Model ----
(***************************************************************************)
(* State-machine model of scrape-a-ris:                                    *)
(*   - risscraper/queue.py : the persisted job queue (class Queue)         *)
(*   - db/mongodb.py       : the document synchroniser (class MongoDatabase)*)
(* A collection is a set of documents; every pymongo call the code makes   *)
(* is one atomic step on that set.                                         *)
(***************************************************************************)
EXTENDS Integers, Sequences, FiniteSets, TLC

VARIABLES
    queue,      \* the documents of db.queue
    nextId,     \* the next ObjectId db.queue hands out
    pc,         \* per worker: "idle", or "update" between mark_failed's two store calls
    job,        \* per worker: what mark_failed holds between its two store calls
    ret,        \* the last completed call: its name, what it returned or raised
    claimed,    \* history: per ObjectId, how many get() calls returned that job
    resolved,   \* history: the (rs, qname, key) whose job resolve_job has set DONE
    attachments,\* the documents of db.attachments
    files,      \* the documents of db.fs.files (GridFS)
    submissions,\* the documents of db.submissions
    sessions,   \* the documents of db.sessions
    nextOid,    \* the next ObjectId the database hands out
    log         \* the last save call: its writes, what it returned or raised

qvars == <<queue, nextId, pc, job, ret, claimed, resolved>>

dvars == <<attachments, files, submissions, sessions, nextOid, log>>

vars == <<queue, nextId, pc, job, ret, claimed, resolved,
          attachments, files, submissions, sessions, nextOid, log>>

----------------------------------------------------------------------------
(* Bounds of the model *)

\* number of ObjectIds the queue collection hands out (successful inserts)
MaxId == 2
\* largest value the failures counter is driven to
MaxFailures == 3

Ids == 1..MaxId

\* concurrent worker processes
Workers == {"w1", "w2"}

\* values of datetime.utcnow()
Times == {0, 1}

None == "None"

\* Queue instances: (config.RS, name)
MainQueue == [rs |-> "rs1", name |-> "q1"]

Queues == { MainQueue,
            [rs |-> "rs1", name |-> "q2"],
            [rs |-> "rs2", name |-> "q1"] }

Keys == {"k1", "k2"}

Payloads == {"p"}

\* key_or_element arguments: a bare key, or a dict with 'key' and optional 'payload'
Elements ==
    { [dict |-> FALSE, key |-> k, payload |-> None] : k \in Keys }
    \cup { [dict |-> TRUE, key |-> k, payload |-> p] :
              k \in Keys, p \in Payloads \cup {None} }

\* arguments the workers of MainQueue pass: a bare k1, and k2 with a payload
SpecElements ==
    { e \in Elements : IF e.key = "k1" THEN ~e.dict ELSE e.payload # None }

\* arguments passed one call at a time: MainQueue gets k1 bare or with a
\* payload and k2 in a dict without payload, the other Queue instances a bare k1
SeqElements(q) ==
    { e \in Elements :
        IF q = MainQueue
          THEN IF e.key = "k1" THEN (~e.dict \/ e.payload # None)
                               ELSE (e.dict /\ e.payload = None)
          ELSE e.key = "k1" /\ ~e.dict }

NoJob == [_id |-> 0, set |-> FALSE]

----------------------------------------------------------------------------
(* Store primitives on the queue collection *)

\* query {'rs': RS, 'qname': name, 'key': key}
MatchKey(q, key) ==
    { j \in queue : j.rs = q.rs /\ j.qname = q.name /\ j.key = key }

\* query {'rs': RS, 'qname': name, 'status': status}
MatchStatus(q, status) ==
    { j \in queue : j.rs = q.rs /\ j.qname = q.name /\ j.status = status }

\* a unique index on (rs, key) alone
DuplicateKeyNoQname(d) ==
    \E j \in queue : j.rs = d.rs /\ j.key = d.key

\* unique index on (rs, qname, key): does inserting d raise DuplicateKeyError?
DuplicateKey(d) ==
    \E j \in queue : j.rs = d.rs /\ j.qname = d.qname /\ j.key = d.key

\* datetime.utcnow(): no earlier than any timestamp already stored
Now == { t \in Times : \A j \in queue : j.last_modified <= t }

\* the last completed call: its name, and what it returned or raised
Ret(op, key, payload, exc) ==
    [op |-> op, key |-> key, payload |-> payload, exc |-> exc]

----------------------------------------------------------------------------
(* Queue.add *)

ElementKey(e) == e.key

ElementPayload(e) == IF e.dict THEN e.payload ELSE None

NewJob(q, e, now) ==
    [_id |-> nextId, rs |-> q.rs, qname |-> q.name, status |-> "OPEN",
     key |-> ElementKey(e), failures |-> 0, last_modified |-> now,
     payload |-> ElementPayload(e)]

Add(q, e) ==
    /\ IF \A now \in Now : DuplicateKey(NewJob(q, e, now))
         THEN UNCHANGED <<queue, nextId>>
         ELSE \E now \in Now :
                /\ ~DuplicateKey(NewJob(q, e, now))
                /\ nextId <= MaxId
                /\ queue' = queue \cup {NewJob(q, e, now)}
                /\ nextId' = nextId + 1
    /\ ret' = Ret("add", None, None, None)
    /\ UNCHANGED <<pc, job, claimed, resolved>>
    /\ UNCHANGED dvars

----------------------------------------------------------------------------
(* Queue.get *)

\* the query of get() without its status condition
GetQueryAnyStatus(q) ==
    { j \in queue : j.rs = q.rs /\ j.qname = q.name }

\* the query of get() without its rs and qname conditions
GetQueryAnyQueue(q) ==
    { j \in queue : j.status = "OPEN" }

GetQuery(q) == MatchStatus(q, "OPEN")

Get(q) ==
    /\ IF GetQuery(q) = {}
         THEN /\ ret' = Ret("get", None, None, "TypeError")
              /\ UNCHANGED <<queue, claimed>>
         ELSE \E find \in GetQuery(q) : \E now \in Now :
                /\ queue' = (queue \ {find}) \cup
                     {[find EXCEPT !.status = "IN_PROGRESS", !.last_modified = now]}
                /\ ret' = Ret("get", find.key, find.payload, None)
                /\ claimed' = [claimed EXCEPT ![find._id] = @ + 1]
    /\ UNCHANGED <<nextId, pc, job, resolved>>
    /\ UNCHANGED dvars

----------------------------------------------------------------------------
(* Queue.__len__ and Queue.has_next *)

\* __len__ counting the jobs of every status
QueueLenAnyStatus(q) ==
    Cardinality({ j \in queue : j.rs = q.rs /\ j.qname = q.name })

QueueLen(q) == Cardinality(MatchStatus(q, "OPEN"))

\* has_next that needs more than one OPEN job
HasNextMoreThanOne(q) == QueueLen(q) > 1

HasNext(q) == IF QueueLen(q) > 0 THEN TRUE ELSE FALSE

----------------------------------------------------------------------------
(* Queue.resolve_job *)

ResolveJob(q, e) ==
    /\ IF MatchKey(q, ElementKey(e)) = {}
         THEN UNCHANGED <<queue, resolved>>
         ELSE \E find \in MatchKey(q, ElementKey(e)) : \E now \in Now :
                /\ queue' = (queue \ {find}) \cup
                     {[find EXCEPT !.status = "DONE", !.last_modified = now]}
                /\ resolved' = resolved \cup {<<find.rs, find.qname, find.key>>}
    /\ ret' = Ret("resolve_job", None, None, None)
    /\ UNCHANGED <<nextId, pc, job, claimed>>
    /\ UNCHANGED dvars

----------------------------------------------------------------------------
(* Queue.mark_failed: find_one, then update by _id -- two store calls.     *)
(* Between them the caller holds job['_id'] and the update document.       *)

\* the failure count from which the update document sets status FAILED
Threshold == 2

\* the threshold test written with > instead of >=
SetsFailedLate(found) == found.failures > Threshold

\* the condition of mark_failed that marks every failed job FAILED
SetsFailedAlways(found) == TRUE

\* does the update document carry {'$set': {'status': 'FAILED'}}?
SetsFailed(found) == found.failures >= Threshold

\* calls that have read the job and not yet written
InFlight(id) == Cardinality({ w \in Workers : pc[w] = "update" /\ job[w]._id = id })

MarkFailedFind(w, q, e) ==
    /\ pc[w] = "idle"
    /\ IF MatchKey(q, ElementKey(e)) = {}
         THEN /\ ret' = Ret("mark_failed", None, None, "TypeError")
              /\ UNCHANGED <<pc, job>>
         ELSE \E found \in MatchKey(q, ElementKey(e)) :
                /\ found.failures + InFlight(found._id) < MaxFailures
                /\ job' = [job EXCEPT ![w] =
                             [_id |-> found._id, set |-> SetsFailed(found)]]
                /\ pc' = [pc EXCEPT ![w] = "update"]
                /\ UNCHANGED ret
    /\ UNCHANGED <<queue, nextId, claimed, resolved>>
    /\ UNCHANGED dvars

\* an update document that also puts the job back to OPEN for a retry
ApplyUpdateReopen(d, update) ==
    [d EXCEPT !.failures = @ + 1,
              !.status = IF update.set THEN "FAILED" ELSE "OPEN"]

\* the update document {'$inc': ..., ['$set': ...]} applied to the stored document d
ApplyUpdate(d, update) ==
    [d EXCEPT !.failures = @ + 1,
              !.status = IF update.set THEN "FAILED" ELSE @]

MarkFailedUpdate(w) ==
    /\ pc[w] = "update"
    /\ queue' = { IF d._id = job[w]._id THEN ApplyUpdate(d, job[w]) ELSE d :
                   d \in queue }
    /\ pc' = [pc EXCEPT ![w] = "idle"]
    /\ job' = [job EXCEPT ![w] = NoJob]
    /\ ret' = Ret("mark_failed", None, None, None)
    /\ UNCHANGED <<nextId, claimed, resolved>>
    /\ UNCHANGED dvars

\* mark_failed run by one caller at a time: nothing comes between its two store calls
MarkFailed(q, e) ==
    /\ \A w \in Workers : pc[w] = "idle"
    /\ IF MatchKey(q, ElementKey(e)) = {}
         THEN /\ ret' = Ret("mark_failed", None, None, "TypeError")
              /\ UNCHANGED queue
         ELSE \E found \in MatchKey(q, ElementKey(e)) :
                /\ found.failures < MaxFailures
                /\ queue' = { IF d._id = found._id
                                THEN ApplyUpdate(d, [_id |-> found._id,
                                                     set |-> SetsFailed(found)])
                                ELSE d : d \in queue }
                /\ ret' = Ret("mark_failed", None, None, None)
    /\ UNCHANGED <<nextId, pc, job, claimed, resolved>>
    /\ UNCHANGED dvars

----------------------------------------------------------------------------
(* Queue.garbage_collect *)

\* the query of garbage_collect() without its qname condition
GCQueryNoQname(q) ==
    { j \in queue : j.rs = q.rs /\ j.status = "DONE" }

GCQuery(q) == MatchStatus(q, "DONE")

GarbageCollect(q) ==
    /\ queue' = queue \ GCQuery(q)
    /\ ret' = Ret("garbage_collect", None, None, None)
    /\ UNCHANGED <<nextId, pc, job, claimed, resolved>>
    /\ UNCHANGED dvars

----------------------------------------------------------------------------
(* db/mongodb.py: documents are functions from the keys they hold to values *)

\* number of ObjectIds handed out to attachments and their blobs
MaxOid == 4

\* config.AGS of the processes that synchronise
Realms == {"ags1", "ags2"}

\* attachment.content values: byte strings
Contents == { <<1>>, <<2>>, <<1, 1>> }

Names == {"n1", "n2"}

\* the Attachment objects handed to save_attachment
Attachments ==
    [identifier : {"a1"}, filename : {"f1"}, name : Names, content : Contents,
     last_modified : Times, depublication : {None, "dep"}]

\* the attachments the synchroniser of each realm is run on
SyncAttachments(ags) ==
    { a \in Attachments :
        ags = "ags1" \/ (a.name = "n1" /\ a.last_modified = 0
                           /\ a.depublication = None) }

\* base with the keys of over set to over's values ($set, dict assignment)
Merge(base, over) ==
    [k \in DOMAIN base \cup DOMAIN over |->
        IF k \in DOMAIN over THEN over[k] ELSE base[k]]

\* the dict without the given keys (del)
Without(d, keys) == [k \in DOMAIN d \ keys |-> d[k]]

\* hashlib.md5(content).hexdigest(): a digest computed over all bytes
RECURSIVE md5(_)
md5(content) ==
    IF content = <<>> THEN 7
    ELSE (md5(Tail(content)) * 31 + Head(content) + 1) % 251

\* Attachment.dict(): the storable field mapping of the object
AttachmentDict(a) ==
    LET d == [k \in {"identifier", "filename", "name", "content", "last_modified"}
                |-> a[k]]
    IN  IF a.depublication = None THEN d
        ELSE Merge(d, [depublication |-> a.depublication])

\* get_object(collection, key, value): the documents find_one chooses from
get_object(collection, ags, key, value) ==
    { d \in collection : d["ags"] = ags /\ key \in DOMAIN d /\ d[key] = value }

\* the database a call works on: its collections and the next ObjectId
DB ==
    [attachments |-> attachments, files |-> files, submissions |-> submissions,
     sessions |-> sessions, nextOid |-> nextOid]

\* db.fs.files.find_one({'_id': attachment_stored['file'].id})
FileStored(db, stored) ==
    IF "file" \in DOMAIN stored
      THEN { f \in db.files : f._id = stored["file"] }
      ELSE {}

\* the comparison of stored and submitted file by length alone
FileChangedByLength(file_stored, content) ==
    file_stored.length # Len(content)

\* the comparison of stored and submitted file: length first, then md5
FileChanged(file_stored, content) ==
    IF file_stored.length # Len(content) THEN TRUE
    ELSE file_stored.md5 # md5(content)

\* fs.put(content, filename=..., ags=...): the new document of fs.files
NewFile(oid, a, ags) ==
    [_id |-> oid, length |-> Len(a.content), md5 |-> md5(a.content),
     filename |-> a.filename, ags |-> ags]

\* the loop over the keys without the exemption of last_modified
ChangedKeysAndTimestamp(stored, fresh) ==
    { k \in DOMAIN fresh : k \notin DOMAIN stored \/ stored[k] # fresh[k] }

\* the loop over attachment_fresh.keys() that fills set_attributes
ChangedKeys(stored, fresh) ==
    { k \in DOMAIN fresh \ {"last_modified"} :
        k \notin DOMAIN stored \/ stored[k] # fresh[k] }

\* set_attributes as it stands before the decision to update
SetAttributes(stored, fresh) ==
    LET changed == [k \in ChangedKeys(stored, fresh) |-> fresh[k]]
    IN  IF "file" \notin DOMAIN fresh /\ "file" \in DOMAIN stored
          THEN Merge(changed, [file |-> stored["file"]])
          ELSE changed

\* what a save call hands back: the database after it, the ObjectId it
\* returns or the exception it raises, and the writes it made to its own
\* collection (inserts, updates, the keys of $set) and to GridFS (puts)
Result(db, exc, oid, inserts, updates, puts, set) ==
    [db |-> db, exc |-> exc, oid |-> oid, inserts |-> inserts,
     updates |-> updates, puts |-> puts, set |-> set]

Raised(db, exc) == Result(db, exc, 0, 0, 0, 0, {})

Log(op, r) ==
    [op |-> op, exc |-> r.exc, oid |-> r.oid, inserts |-> r.inserts,
     updates |-> r.updates, puts |-> r.puts, set |-> r.set]

\* fs.put that hands back an ObjectId although nothing was stored
PutSilent(db, ags, a, putFails) ==
    [exc |-> None, oid |-> db.nextOid,
     db |-> [db EXCEPT !.files = IF putFails THEN @
                                 ELSE @ \cup {NewFile(db.nextOid, a, ags)},
                       !.nextOid = @ + 1]]

\* fs.put that stores the blob in place of the earlier ones of that file
PutReplacing(db, ags, a, putFails) ==
    IF putFails
      THEN [exc |-> "StoreUnavailable", oid |-> 0, db |-> db]
      ELSE [exc |-> None, oid |-> db.nextOid,
            db |-> [db EXCEPT !.files =
                        { f \in @ : f.ags # ags \/ f.filename # a.filename }
                           \cup {NewFile(db.nextOid, a, ags)},
                              !.nextOid = @ + 1]]

\* self.fs.put(...): the blob is stored and its ObjectId returned, or the
\* store is unavailable and the call raises
Put(db, ags, a, putFails) ==
    IF putFails
      THEN [exc |-> "StoreUnavailable", oid |-> 0, db |-> db]
      ELSE [exc |-> None, oid |-> db.nextOid,
            db |-> [db EXCEPT !.files = @ \cup {NewFile(db.nextOid, a, ags)},
                              !.nextOid = @ + 1]]

\* the condition for a new file version that ignores depublication
NeedsPutWhenChanged(file_changed, stored) == file_changed

\* the condition for a new file version of a stored attachment
NeedsPut(file_changed, stored) ==
    file_changed /\ "depublication" \notin DOMAIN stored

\* save_attachment of a new attachment: put, then insert
InsertAttachment(db, ags, a, putFails) ==
    LET put == Put(db, ags, a, putFails)
        oid == put.db.nextOid
        attachment_fresh ==
            Merge(Without(AttachmentDict(a), {"content"}),
                  [file |-> put.oid, ags |-> ags, _id |-> oid])
    IN  IF put.exc # None
          THEN Raised(put.db, put.exc)
          ELSE Result([put.db EXCEPT !.attachments = @ \cup {attachment_fresh},
                                     !.nextOid = @ + 1],
                      None, oid, 1, 0, 1, {})

\* save_attachment of a stored attachment: put if needed, then partial update
UpdateAttachment(db, ags, a, putFails, stored) ==
    LET file_changed ==
            \E f \in FileStored(db, stored) : FileChanged(f, a.content)
        needed == NeedsPut(file_changed, stored)
        put == IF needed THEN Put(db, ags, a, putFails)
                         ELSE [exc |-> None, oid |-> 0, db |-> db]
        fresh0 == Merge(Without(AttachmentDict(a), {"content"}), [ags |-> ags])
        fresh == IF needed THEN Merge(fresh0, [file |-> put.oid]) ELSE fresh0
        sets == SetAttributes(stored, fresh)
        update == file_changed \/ DOMAIN sets # {}
        set_attributes ==
            Merge(sets, [last_modified |-> fresh["last_modified"]])
    IN  IF put.exc # None
          THEN Raised(put.db, put.exc)
          ELSE Result(IF update
                        THEN [put.db EXCEPT !.attachments =
                                (@ \ {stored}) \cup {Merge(stored, set_attributes)}]
                        ELSE put.db,
                      None, stored["_id"], 0, IF update THEN 1 ELSE 0,
                      IF needed THEN 1 ELSE 0,
                      IF update THEN DOMAIN set_attributes ELSE {})

\* find_one: the document of a query result; the unique indexes of setup()
\* leave at most one per (ags, key)
find_one(found) == CHOOSE d \in found : TRUE

\* MongoDatabase.save_attachment as the process with config.AGS = ags runs it
save_attachment(db, ags, a, putFails) ==
    LET found == get_object(db.attachments, ags, "identifier", a.identifier)
    IN  IF found = {}
          THEN InsertAttachment(db, ags, a, putFails)
          ELSE UpdateAttachment(db, ags, a, putFails, find_one(found))

\* a call returns: the database and the log take what it hands back.
\* putFails is drawn only for the calls that reach fs.put.
Return(op, r, putFails, maxOid) ==
    /\ putFails => (r.exc # None \/ r.puts > 0)
    /\ r.db.nextOid <= maxOid + 1
    /\ attachments' = r.db.attachments
    /\ files' = r.db.files
    /\ submissions' = r.db.submissions
    /\ sessions' = r.db.sessions
    /\ nextOid' = r.db.nextOid
    /\ log' = Log(op, r)

\* a call of save_attachment
SaveAttachment(ags, a, putFails) ==
    /\ Return("save_attachment", save_attachment(DB, ags, a, putFails),
              putFails, MaxOid)
    /\ UNCHANGED qvars

----------------------------------------------------------------------------
(* db/mongodb.py: submissions and sessions, with their nested objects *)

\* number of ObjectIds handed out while submissions and sessions are saved
MaxDocOid == 7

\* DBRef(collection=..., id=...)
DBRef(collection, id) == [collection |-> collection, id |-> id]

\* Submission.dict(), Session.dict(): the attributes set on the object, the
\* nested objects still as objects
SubmissionDict(submission) == [k \in DOMAIN submission |-> submission[k]]

SessionDict(session) == [k \in DOMAIN session |-> session[k]]

\* what the loops over nested objects hand back: the database after them, the
\* references that replace the objects, the exception that ended them
Nested(db, exc, refs, puts) ==
    [db |-> db, exc |-> exc, refs |-> refs, puts |-> puts]

\* the references of a loop with one more in front
Prepend(ref, puts, rest) ==
    Nested(rest.db, rest.exc, <<ref>> \o rest.refs, puts + rest.puts)

\* the loop of save_submission and save_session over the 'attachments' list:
\* each attachment is saved and replaced by a DBRef to its document
RECURSIVE save_attachments(_, _, _, _)
RECURSIVE NextAttachment(_, _, _, _)
NextAttachment(r, ags, rest, putFails) ==
    IF r.exc # None THEN Nested(r.db, r.exc, <<>>, r.puts)
    ELSE Prepend(DBRef("attachments", r.oid), r.puts,
                 save_attachments(r.db, ags, rest, putFails))

save_attachments(db, ags, list, putFails) ==
    IF list = <<>> THEN Nested(db, None, <<>>, 0)
    ELSE NextAttachment(save_attachment(db, ags, Head(list), putFails),
                        ags, Tail(list), putFails)

\* the dereferencing of the 'attachments' key of a fresh dict
DereferenceAttachments(db, ags, fresh, putFails) ==
    IF "attachments" \in DOMAIN fresh
      THEN save_attachments(db, ags, fresh["attachments"], putFails)
      ELSE Nested(db, None, <<>>, 0)

\* the fresh dict with the nested objects left in place
WithObjects(fresh, key, nested) == fresh

\* the fresh dict with the list under key replaced by the references
WithRefs(fresh, key, nested) ==
    IF key \in DOMAIN fresh THEN Merge(fresh, [k \in {key} |-> nested.refs])
                            ELSE fresh

\* 'superordinate' left as submitted
KeepSuperordinate(db, ags, fresh) == fresh

\* the dereferencing of 'superordinate': a DBRef if the superordinate is
\* stored in this realm, else the submitted data
DereferenceSuperordinate(db, ags, fresh) ==
    LET sup == IF "superordinate" \in DOMAIN fresh
                 THEN get_object(db.submissions, ags, "numeric_id",
                                 fresh["superordinate"]["numeric_id"])
                 ELSE {}
    IN  IF sup # {}
          THEN Merge(fresh, [superordinate |->
                                DBRef("submissions", find_one(sup)["_id"])])
          ELSE fresh

\* an insert without regard to the stored document
InsertAlways(db, collection, found, fresh, puts) ==
    Result([db EXCEPT ![collection] =
               @ \cup {Merge(fresh, [_id |-> db.nextOid])},
                      !.nextOid = @ + 1],
           None, db.nextOid, 1, 0, puts, {})

\* the comparison of the old and the new dict, and the insert or the update
\* that follows it; collection is "submissions" or "sessions"
InsertOrUpdate(db, collection, found, fresh, puts) ==
    IF found # {}
      THEN LET stored == find_one(found)
               changed == [k \in ChangedKeys(stored, fresh) |-> fresh[k]]
               set_attributes ==
                   Merge(changed, [last_modified |-> fresh["last_modified"]])
           IN  IF DOMAIN changed # {}
                 THEN Result([db EXCEPT ![collection] =
                                (@ \ {stored}) \cup {Merge(stored, set_attributes)}],
                             None, stored["_id"], 0, 1, puts,
                             DOMAIN set_attributes)
                 ELSE Result(db, None, stored["_id"], 0, 0, puts, {})
      ELSE Result([db EXCEPT ![collection] =
                      @ \cup {Merge(fresh, [_id |-> db.nextOid])},
                             !.nextOid = @ + 1],
                  None, db.nextOid, 1, 0, puts, {})

\* save_submission from the dereferencing of the superordinate on
SubmissionWrite(db, ags, fresh, atts) ==
    IF atts.exc # None
      THEN Raised(atts.db, atts.exc)
      ELSE InsertOrUpdate(atts.db, "submissions",
                          get_object(db.submissions, ags, "numeric_id",
                                     fresh["numeric_id"]),
                          DereferenceSuperordinate(
                              atts.db, ags, WithRefs(fresh, "attachments", atts)),
                          atts.puts)

\* save_submission with submission_fresh = submission.dict() plus 'ags'
SubmissionFresh(db, ags, fresh, putFails) ==
    SubmissionWrite(db, ags, fresh,
                    DereferenceAttachments(db, ags, fresh, putFails))

\* MongoDatabase.save_submission as the process with config.AGS = ags runs it
save_submission(db, ags, submission, putFails) ==
    SubmissionFresh(db, ags, Merge(SubmissionDict(submission), [ags |-> ags]),
                    putFails)

\* the loop of save_session over the 'submissions' list of an agenda item:
\* each submission is saved and replaced by a DBRef to its document
RECURSIVE save_submissions(_, _, _, _)
RECURSIVE NextSubmission(_, _, _, _)
NextSubmission(r, ags, rest, putFails) ==
    IF r.exc # None THEN Nested(r.db, r.exc, <<>>, r.puts)
    ELSE Prepend(DBRef("submissions", r.oid), r.puts,
                 save_submissions(r.db, ags, rest, putFails))

save_submissions(db, ags, list, putFails) ==
    IF list = <<>> THEN Nested(db, None, <<>>, 0)
    ELSE NextSubmission(save_submission(db, ags, Head(list), putFails),
                        ags, Tail(list), putFails)

\* the loop of save_session over 'agendaitems'; refs are the agenda items
\* with their submissions replaced
RECURSIVE DereferenceAgendaitems(_, _, _, _)
RECURSIVE NextAgendaitem(_, _, _, _, _)
NextAgendaitem(item, subs, ags, rest, putFails) ==
    IF subs.exc # None THEN Nested(subs.db, subs.exc, <<>>, subs.puts)
    ELSE Prepend(WithRefs(item, "submissions", subs), subs.puts,
                 DereferenceAgendaitems(subs.db, ags, rest, putFails))

DereferenceAgendaitems(db, ags, items, putFails) ==
    IF items = <<>> THEN Nested(db, None, <<>>, 0)
    ELSE NextAgendaitem(Head(items),
                        IF "submissions" \in DOMAIN Head(items)
                          THEN save_submissions(db, ags, Head(items)["submissions"],
                                                putFails)
                          ELSE Nested(db, None, <<>>, 0),
                        ags, Tail(items), putFails)

\* save_session from the comparison with the stored session on
SessionWrite(db, ags, dict, puts, items) ==
    IF items.exc # None
      THEN Raised(items.db, items.exc)
      ELSE InsertOrUpdate(items.db, "sessions",
                          get_object(db.sessions, ags, "numeric_id",
                                     dict["numeric_id"]),
                          WithRefs(dict, "agendaitems", items),
                          puts + items.puts)

\* save_session from the dereferencing of the agenda items on
SessionAgendaitems(db, ags, dict, atts, putFails) ==
    IF atts.exc # None
      THEN Raised(atts.db, atts.exc)
      ELSE SessionWrite(db, ags, WithRefs(dict, "attachments", atts), atts.puts,
                        IF "agendaitems" \in DOMAIN dict
                          THEN DereferenceAgendaitems(atts.db, ags,
                                                      dict["agendaitems"], putFails)
                          ELSE Nested(atts.db, None, <<>>, 0))

\* save_session with session_dict = session.dict() plus 'ags'
SessionFresh(db, ags, dict, putFails) ==
    SessionAgendaitems(db, ags, dict,
                       DereferenceAttachments(db, ags, dict, putFails), putFails)

\* MongoDatabase.save_session as the process with config.AGS = ags runs it
save_session(db, ags, session, putFails) ==
    SessionFresh(db, ags, Merge(SessionDict(session), [ags |-> ags]), putFails)

\* the Attachment objects nested in submissions and sessions
NestedAttachment(identifier, filename) ==
    [identifier |-> identifier, filename |-> filename, name |-> "n1",
     content |-> <<1>>, last_modified |-> 0, depublication |-> None]

A1 == NestedAttachment("a1", "f1")

A2 == NestedAttachment("a2", "f2")

\* the Submission objects handed to save_submission: submission 1 as first
\* scraped, with a changed identifier, with a later last_modified alone, with
\* two attachments, naming submission 2 as its superordinate
S1 == [numeric_id |-> 1, identifier |-> "i1", last_modified |-> 0]

S1Changed == [numeric_id |-> 1, identifier |-> "i2", last_modified |-> 1]

S1Later == [numeric_id |-> 1, identifier |-> "i1", last_modified |-> 1]

S1Atts == [numeric_id |-> 1, identifier |-> "i1", last_modified |-> 0,
           attachments |-> <<A1, A2>>]

S1Sup == [numeric_id |-> 1, identifier |-> "i1", last_modified |-> 0,
          superordinate |-> [numeric_id |-> 2]]

\* submission 2, with an attachment that submission 1 holds too, and without
S2 == [numeric_id |-> 2, identifier |-> "i1", last_modified |-> 0,
       attachments |-> <<A1>>]

S2Plain == [numeric_id |-> 2, identifier |-> "i1", last_modified |-> 0]

\* the submissions the synchroniser of each realm is run on
Submissions(ags) ==
    IF ags = "ags1" THEN {S1, S1Changed, S1Later, S1Atts, S1Sup, S2}
                    ELSE {S2Plain}

\* the Session objects handed to save_session: session 1 without nested
\* objects, with an agenda item of two submissions, the same with one
\* submission changed, with an attachment and an agenda item without
\* submissions
Sessions ==
    { [numeric_id |-> 1, last_modified |-> 0],
      [numeric_id |-> 1, last_modified |-> 0,
       agendaitems |-> <<[number |-> 1, submissions |-> <<S1, S2>>]>>],
      [numeric_id |-> 1, last_modified |-> 0,
       agendaitems |-> <<[number |-> 1, submissions |-> <<S1Changed, S2>>]>>],
      [numeric_id |-> 1, last_modified |-> 1, attachments |-> <<A1>>,
       agendaitems |-> <<[number |-> 1]>>] }

\* a call of save_submission
SaveSubmission(ags, submission, putFails) ==
    /\ Return("save_submission", save_submission(DB, ags, submission, putFails),
              putFails, MaxDocOid)
    /\ UNCHANGED qvars

\* a call of save_session
SaveSession(ags, session, putFails) ==
    /\ Return("save_session", save_session(DB, ags, session, putFails),
              putFails, MaxDocOid)
    /\ UNCHANGED qvars

----------------------------------------------------------------------------
(* Specifications *)

Init ==
    /\ queue = {}
    /\ nextId = 1
    /\ pc = [w \in Workers |-> "idle"]
    /\ job = [w \in Workers |-> NoJob]
    /\ ret = Ret("init", None, None, None)
    /\ claimed = [i \in Ids |-> 0]
    /\ resolved = {}
    /\ attachments = {}
    /\ files = {}
    /\ submissions = {}
    /\ sessions = {}
    /\ nextOid = 1
    /\ log = [op |-> "init", exc |-> None, oid |-> 0, inserts |-> 0,
              updates |-> 0, puts |-> 0, set |-> {}]

\* The workers of one Queue instance, their store calls in any interleaving
Next ==
    \/ \E e \in SpecElements : Add(MainQueue, e)
    \/ Get(MainQueue)
    \/ \E e \in SpecElements : ResolveJob(MainQueue, e)
    \/ \E w \in Workers : \E e \in SpecElements : MarkFailedFind(w, MainQueue, e)
    \/ \E w \in Workers : MarkFailedUpdate(w)
    \/ GarbageCollect(MainQueue)

Spec == Init /\ [][Next]_vars

\* Several Queue instances on one collection, one call at a time; the other
\* instances enqueue, resolve and garbage-collect
SeqNext ==
    \/ \E q \in Queues : \E e \in SeqElements(q) : Add(q, e)
    \/ Get(MainQueue)
    \/ \E q \in Queues : \E e \in SeqElements(q) : ResolveJob(q, e)
    \/ \E e \in SeqElements(MainQueue) : MarkFailed(MainQueue, e)
    \/ \E q \in Queues : GarbageCollect(q)

SeqSpec == Init /\ [][SeqNext]_vars

\* a worker's loop: while q.has_next(): job = q.get()
WorkerGet(q) == HasNext(q) /\ Get(q)

\* a worker holds the job of this key: get() has returned it to the worker
Held(q, e) == \E j \in MatchKey(q, ElementKey(e)) : j.status = "IN_PROGRESS"

\* a worker reports the job it holds as done
WorkerResolve(q, e) == Held(q, e) /\ ResolveJob(q, e)

\* a worker reports the job it holds as failed
WorkerFail(q, e) == Held(q, e) /\ MarkFailed(q, e)

\* A producer that enqueues and workers that drain the queue: each takes jobs
\* while there are any and reports on the jobs it took
DrainNext ==
    \/ \E e \in SpecElements : Add(MainQueue, e)
    \/ WorkerGet(MainQueue)
    \/ \E e \in SpecElements : WorkerResolve(MainQueue, e)
    \/ \E e \in SpecElements : WorkerFail(MainQueue, e)
    \/ GarbageCollect(MainQueue)

\* the workers do not stop taking jobs while has_next() is true
DrainSpec == Init /\ [][DrainNext]_vars /\ WF_vars(WorkerGet(MainQueue))

\* The synchroniser of each realm, one save at a time
SyncNext ==
    \E ags \in Realms : \E a \in SyncAttachments(ags) : \E putFails \in BOOLEAN :
       SaveAttachment(ags, a, putFails)

SyncSpec == Init /\ [][SyncNext]_vars

\* attachment documents as save_attachment is prepared to find them (the
\* tests 'file' in attachment_stored and file_stored is not None): without a
\* file reference, with a reference to no stored blob, with its blob
StoredAttachments ==
    LET a == [identifier |-> "a1", filename |-> "f1", name |-> "n1",
              content |-> <<1>>, last_modified |-> 0, depublication |-> None]
        d == Merge(Without(AttachmentDict(a), {"content"}),
                   [ags |-> "ags1", _id |-> 1])
    IN  { [attachments |-> {d}, files |-> {}],
          [attachments |-> {Merge(d, [file |-> 2])}, files |-> {}],
          [attachments |-> {Merge(d, [file |-> 2])},
           files |-> {NewFile(2, a, "ags1")}] }

\* the synchroniser started on a database that holds such a document
StoredInit ==
    /\ queue = {}
    /\ nextId = 1
    /\ pc = [w \in Workers |-> "idle"]
    /\ job = [w \in Workers |-> NoJob]
    /\ ret = Ret("init", None, None, None)
    /\ claimed = [i \in Ids |-> 0]
    /\ resolved = {}
    /\ \E st \in StoredAttachments :
          /\ attachments = st.attachments
          /\ files = st.files
    /\ submissions = {}
    /\ sessions = {}
    /\ nextOid = 3
    /\ log = [op |-> "init", exc |-> None, oid |-> 0, inserts |-> 0,
              updates |-> 0, puts |-> 0, set |-> {}]

StoredSpec == StoredInit /\ [][SyncNext]_vars

\* The synchroniser of submissions and sessions, one save at a time
DocNext ==
    \/ \E ags \in Realms : \E x \in Submissions(ags) :
          \E putFails \in BOOLEAN : SaveSubmission(ags, x, putFails)
    \/ \E x \in Sessions : \E putFails \in BOOLEAN :
          SaveSession("ags1", x, putFails)

DocSpec == Init /\ [][DocNext]_vars

----------------------------------------------------------------------------
(* Claims about the job queue *)

\* the jobs of Queue instance q with key k
JobsOf(q, k) == { j \in queue : j.rs = q.rs /\ j.qname = q.name /\ j.key = k }

\* the OPEN jobs of Queue instance q
OpenOf(q) == { j \in queue : j.rs = q.rs /\ j.qname = q.name /\ j.status = "OPEN" }

Terminal == {"DONE", "FAILED"}

\* C1: add(key) on a key that already has a job of this realm and queue, in any
\* status, raises nothing and leaves the whole collection as it was; on a key
\* without a job it inserts exactly one job, OPEN with failures = 0; either way
\* the key has exactly one job afterwards.
C1_AddIdempotent ==
    [][\A q \in Queues : \A e \in Elements :
         (ret'.op = "add" /\ Add(q, e)) =>
           /\ ret'.exc = None
           /\ IF JobsOf(q, e.key) # {}
                THEN queue' = queue
                ELSE \E j \in queue' :
                       /\ j \notin queue
                       /\ queue' = queue \cup {j}
                       /\ j.rs = q.rs /\ j.qname = q.name /\ j.key = e.key
                       /\ j.status = "OPEN" /\ j.failures = 0
           /\ Cardinality({ j \in queue' : j.rs = q.rs /\ j.qname = q.name
                                            /\ j.key = e.key }) = 1]_vars

\* add has just returned although no job is OPEN: it met a job that was already
\* DONE, next to a job of another Queue instance
C1_Witness ==
    /\ ret.op = "add"
    /\ Cardinality(queue) = 2
    /\ \A j \in queue : j.status = "DONE"
    /\ \E j \in queue : j.qname # MainQueue.name
    /\ \E j \in queue : j.payload # None

\* C2: a get() that returns a job moves exactly that one OPEN job of this
\* realm and queue to IN_PROGRESS and returns its key and payload, and no job
\* is ever returned by two get() calls.
C2_ExclusiveClaim ==
    [][/\ \A i \in Ids : claimed'[i] <= 1
       /\ \A q \in Queues :
            (ret'.op = "get" /\ ret'.exc = None /\ Get(q)) =>
               \E j \in OpenOf(q) : \E t \in Times :
                  /\ queue' = (queue \ {j}) \cup
                       {[j EXCEPT !.status = "IN_PROGRESS", !.last_modified = t]}
                  /\ ret'.key = j.key /\ ret'.payload = j.payload
                  /\ claimed'[j._id] = claimed[j._id] + 1]_vars

\* two jobs have each been returned by one get(), the last one with its payload,
\* while a mark_failed call is between its two store calls
C2_Witness ==
    /\ ret.op = "get" /\ ret.exc = None /\ ret.payload # None
    /\ Cardinality({ i \in Ids : claimed[i] = 1 }) = 2
    /\ \E w \in Workers : pc[w] = "update"

\* C3 as claimed: a DONE or FAILED job keeps its status until garbage_collect
\* deletes it as DONE.
C3_TerminalForever ==
    [][\A j \in queue :
         j.status \in Terminal =>
           \/ \E n \in queue' : n._id = j._id /\ n.status = j.status
           \/ /\ j.status = "DONE"
              /\ ret'.op = "garbage_collect"
              /\ \A n \in queue' : n._id # j._id]_vars

\* C3 as amended: a DONE or FAILED job never becomes OPEN or IN_PROGRESS; its
\* status changes only from FAILED to DONE by resolve_job and from DONE to
\* FAILED by a mark_failed on a failures counter of 2 or more, and it leaves the
\* collection only as DONE, by garbage_collect.
C3_TerminalStaysTerminal ==
    [][\A j \in queue :
         j.status \in Terminal =>
           \/ \E n \in queue' :
                /\ n._id = j._id
                /\ \/ n.status = j.status
                   \/ /\ j.status = "FAILED" /\ n.status = "DONE"
                      /\ ret'.op = "resolve_job"
                   \/ /\ j.status = "DONE" /\ n.status = "FAILED"
                      /\ ret'.op = "mark_failed" /\ j.failures >= 2
           \/ /\ j.status = "DONE"
              /\ ret'.op = "garbage_collect"
              /\ \A n \in queue' : n._id # j._id]_vars

\* a job that failed three times and was then resolved is DONE, and a
\* garbage_collect has left a FAILED job in place
C3_Witness ==
    /\ ret.op = "garbage_collect"
    /\ \E j \in queue : j.status = "FAILED"
    /\ resolved # {}

\* C4: with one caller at a time, a mark_failed that finds the job raises its
\* failures counter by exactly one; from a counter of 0 or 1 the status stays
\* as it was, from a counter of 2 the job ends with failures = 3 and FAILED.
C4_FailureEscalation ==
    [][\A q \in Queues : \A e \in Elements :
         (ret'.op = "mark_failed" /\ JobsOf(q, e.key) # {} /\ MarkFailed(q, e)) =>
            \E j \in JobsOf(q, e.key) : \E n \in queue' :
               /\ n._id = j._id
               /\ n.failures = j.failures + 1
               /\ queue' = (queue \ {j}) \cup {n}
               /\ (j.failures < 2 => n.status = j.status)
               /\ (j.failures = 2 => n.failures = 3 /\ n.status = "FAILED")]_vars

\* the third mark_failed on a claimed job has just made it FAILED
C4_Witness ==
    /\ ret.op = "mark_failed" /\ ret.exc = None
    /\ \E j \in queue : j.failures = 3 /\ j.status = "FAILED" /\ claimed[j._id] = 1

\* C5: garbage_collect() removes the DONE jobs of its realm and queue name and
\* leaves every other document of the collection in place and unchanged.
C5_GarbageCollectFrame ==
    [][\A q \in Queues :
         (ret'.op = "garbage_collect" /\ GarbageCollect(q)) =>
           /\ queue' \subseteq queue
           /\ \A j \in queue :
                IF j.rs = q.rs /\ j.qname = q.name /\ j.status = "DONE"
                  THEN \A n \in queue' : n._id # j._id
                  ELSE j \in queue']_vars

\* garbage_collect has deleted a DONE job and left the DONE job of the Queue
\* instance with another name in the same realm
C5_Witness ==
    /\ ret.op = "garbage_collect"
    /\ nextId = 3
    /\ Cardinality(queue) = 1
    /\ \E j \in queue : j.status = "DONE" /\ j.rs = MainQueue.rs

\* C6: len(queue) is the number of keys of this realm and queue name that have
\* an OPEN job, and has_next() is true exactly when there is one.
C6_LenCountsOpen ==
    \A q \in Queues :
       /\ QueueLen(q) = Cardinality({ k \in Keys : \E j \in JobsOf(q, k) : j.status = "OPEN" })
       /\ HasNext(q) = (\E j \in queue : j.rs = q.rs /\ j.qname = q.name /\ j.status = "OPEN")

\* one job of MainQueue is OPEN beside a job that must not be counted
C6_Witness ==
    /\ QueueLen(MainQueue) = 1
    /\ HasNext(MainQueue)
    /\ Cardinality(queue) = 2

\* C7: a get() that finds no OPEN job of its realm and queue ends in an error
\* and leaves the collection as it was.
C7_GetOnEmpty ==
    [][\A q \in Queues :
         (ret'.op = "get" /\ OpenOf(q) = {} /\ Get(q)) =>
            /\ ret'.exc # None
            /\ queue' = queue
            /\ claimed' = claimed]_vars

\* get() has just failed on MainQueue while another Queue instance has an OPEN job
C7_Witness ==
    /\ ret.op = "get" /\ ret.exc = "TypeError"
    /\ \E j \in queue : j.status = "OPEN" /\ j.last_modified = 0
    /\ \E j \in queue : j.status # "OPEN" /\ j.last_modified = 1

\* C8 as claimed: a key whose job resolve_job has set DONE never has an OPEN job
\* again.
C8_ProcessedNeverReopened ==
    \A j \in queue : <<j.rs, j.qname, j.key>> \in resolved => j.status # "OPEN"

\* the stored fields a submitted attachment is compared with
Fresh(ags, a) == Merge(Without(AttachmentDict(a), {"content"}), [ags |-> ags])

\* stored holds every field of the submitted attachment with the same value
\* (last_modified aside) and its blob holds the submitted content
Identical(stored, ags, a) ==
    /\ \A k \in DOMAIN Fresh(ags, a) \ {"last_modified"} :
          k \in DOMAIN stored /\ stored[k] = Fresh(ags, a)[k]
    /\ \E f \in FileStored(DB, stored) :
          f.length = Len(a.content) /\ f.md5 = md5(a.content)

\* stored differs from the submitted attachment in the content alone
ContentDiffers(stored, ags, a) ==
    /\ "depublication" \notin DOMAIN stored
    /\ \A k \in DOMAIN Fresh(ags, a) \ {"last_modified"} :
          k \in DOMAIN stored /\ stored[k] = Fresh(ags, a)[k]
    /\ \E f \in FileStored(DB, stored) :
          f.length # Len(a.content) \/ f.md5 # md5(a.content)

\* C9: save_attachment of an attachment not yet stored performs exactly one
\* document insert and one blob put; save_attachment of an attachment whose
\* fields and content are identical to what is stored performs no write: no
\* blob put and no update of the attachment document.
C9_SyncIdempotent ==
    [][\A ags \in Realms : \A a \in SyncAttachments(ags) :
         SaveAttachment(ags, a, FALSE) =>
           LET found == get_object(attachments, ags, "identifier", a.identifier)
           IN  /\ found = {} =>
                    /\ log'.inserts = 1 /\ log'.puts = 1 /\ log'.updates = 0
                    /\ Cardinality(attachments') = Cardinality(attachments) + 1
                    /\ Cardinality(files') = Cardinality(files) + 1
               /\ \A stored \in found : Identical(stored, ags, a) =>
                    /\ log'.inserts = 0 /\ log'.puts = 0 /\ log'.updates = 0
                    /\ attachments' = attachments
                    /\ files' = files]_vars

\* C10: when save_attachment is called for a stored attachment without
\* depublication whose content differs from the referenced blob in length or
\* hash while all other fields are equal, exactly one new blob is created and
\* the update of the attachment document sets only the file reference, to the
\* new blob, and last_modified; every other stored field keeps its value.
C10_ContentChangeFrame ==
    [][\A ags \in Realms : \A a \in SyncAttachments(ags) :
         \A stored \in get_object(attachments, ags, "identifier", a.identifier) :
           (/\ log'.exc = None /\ log'.oid = stored["_id"]
            /\ ContentDiffers(stored, ags, a)
            /\ SaveAttachment(ags, a, FALSE)) =>
              /\ Cardinality(files') = Cardinality(files) + 1
              /\ files \subseteq files'
              /\ log'.puts = 1 /\ log'.inserts = 0 /\ log'.updates = 1
              /\ log'.set = {"file", "last_modified"}
              /\ \E new \in attachments' :
                   /\ attachments' = (attachments \ {stored}) \cup {new}
                   /\ DOMAIN new = DOMAIN stored
                   /\ \A k \in DOMAIN stored \ {"file", "last_modified"} :
                         new[k] = stored[k]
                   /\ new["last_modified"] = a.last_modified
                   /\ new["file"] # stored["file"]
                   /\ \E f \in files' \ files :
                         /\ f._id = new["file"]
                         /\ f.length = Len(a.content)
                         /\ f.md5 = md5(a.content)]_vars

\* a save has replaced the blob of a stored attachment whose other fields were
\* equal: one put, one update of file and last_modified, and the old blob of
\* the same length still stored
C10_Witness ==
    /\ log.op = "save_attachment" /\ log.exc = None
    /\ log.puts = 1 /\ log.updates = 1
    /\ log.set = {"file", "last_modified"}
    /\ \E d \in attachments : \E f \in files : \E g \in files :
          /\ d["_id"] = log.oid
          /\ d["file"] = f._id
          /\ g._id # f._id /\ g.ags = f.ags
          /\ g.length = f.length /\ g.md5 # f.md5

\* the blobs stored for an attachment document: fs.put tags each with the
\* realm and the filename of the attachment
BlobsOf(fs, d) == { f \in fs : f.ags = d["ags"] /\ f.filename = d["filename"] }

\* every file reference of an attachment document names a stored blob
NoDanglingFile(db) ==
    \A d \in db.attachments :
       "file" \in DOMAIN d => \E f \in db.files : f._id = d["file"]

\* C15: if the stored attachment record carries a depublication field,
\* save_attachment creates no new blob whether or not the submitted content
\* differs from the stored blob, and the stored file reference keeps pointing
\* to the previously referenced blob.
C15_DepublicationSuppressesBlob ==
    [][\A stored \in attachments :
           (/\ "depublication" \in DOMAIN stored
            /\ log'.op = "save_attachment"
            /\ log'.oid = stored["_id"]) =>
              /\ files' = files
              /\ log'.puts = 0
              /\ \E new \in attachments' :
                   /\ new["_id"] = stored["_id"]
                   /\ new["file"] = stored["file"]
                   /\ \E f \in files' : f._id = new["file"]]_vars

\* a save has updated a depublished attachment without a put, and the blob it
\* references is the one stored when the attachment was inserted
C15_Witness ==
    /\ log.op = "save_attachment" /\ log.exc = None
    /\ log.updates = 1 /\ log.puts = 0
    /\ \E d \in attachments :
          /\ d["_id"] = log.oid
          /\ "depublication" \in DOMAIN d
          /\ \E f \in files : f._id = d["file"] /\ f._id < d["_id"]

\* C16: after any sequence of save_attachment calls that do not overlap, the
\* file reference of an attachment document names the most recently created
\* blob of that attachment, and no step modifies or deletes a blob created
\* earlier: a content change adds a blob.
C16_NewestBlobReferenced ==
    [][/\ files \subseteq files'
       /\ \A d \in attachments' :
            /\ d["file"] \in { f._id : f \in BlobsOf(files', d) }
            /\ \A f \in BlobsOf(files', d) : f._id <= d["file"]]_vars

\* an attachment whose content changed: two blobs are stored for it and the
\* document references the later one
C16_Witness ==
    \E d \in attachments : \E f \in BlobsOf(files, d) : \E g \in BlobsOf(files, d) :
       /\ f._id < g._id
       /\ d["file"] = g._id
       /\ f.md5 # g.md5

\* C19: if the blob put fails during save_attachment, the error reaches the
\* caller and the call inserts or updates no attachment document; in every
\* reachable state each file reference of an attachment document names a blob
\* whose put completed.
C19_NoDanglingReference ==
    /\ [](/\ NoDanglingFile(DB)
          /\ \A ags \in Realms : \A a \in SyncAttachments(ags) :
                LET r == save_attachment(DB, ags, a, TRUE)
                IN  (r.exc # None \/ r.puts > 0) =>
                       /\ r.exc = "StoreUnavailable"
                       /\ r.db.attachments = attachments
                       /\ r.db.files = files)
    /\ [][log'.exc # None => (attachments' = attachments /\ files' = files)]_vars

\* a put has failed while a stored attachment was being saved with changed
\* content: the call raised and the document still references its blob
C19_Witness ==
    /\ log.op = "save_attachment" /\ log.exc = "StoreUnavailable"
    /\ attachments # {}
    /\ NoDanglingFile(DB)

\* C18: with workers calling mark_failed on the same job in any interleaving
\* and no resolve_job on it, every state in which no mark_failed call is in
\* progress has: failures >= 3 implies status = FAILED.
C18_ThresholdUnderConcurrency ==
    (\A w \in Workers : pc[w] = "idle") =>
       \A j \in queue :
          (<<j.rs, j.qname, j.key>> \notin resolved /\ j.failures >= Threshold + 1)
             => j.status = "FAILED"

\* C20: no queue operation changes the status of an existing job back to
\* OPEN; a job that get() has claimed and mark_failed has failed fewer than
\* 3 times stays IN_PROGRESS, is not counted by len(queue), and is returned
\* by no later get().
C20_NoAutomaticRetry ==
    [][/\ \A d \in queue : \A e \in queue' :
            e._id = d._id =>
               /\ e.status = "OPEN" => d.status = "OPEN"
               /\ (/\ d.status = "IN_PROGRESS" /\ claimed[d._id] = 1
                   /\ e.failures = d.failures + 1
                   /\ e.failures < Threshold + 1) => e.status = "IN_PROGRESS"
               /\ claimed'[d._id] > claimed[d._id] => d.status = "OPEN"
       /\ \A q \in Queues :
            /\ GetQuery(q) \cap MatchStatus(q, "IN_PROGRESS") = {}
            /\ QueueLen(q) + Cardinality(MatchStatus(q, "IN_PROGRESS"))
                  <= Cardinality({ j \in queue : j.rs = q.rs /\ j.qname = q.name })]_vars

\* a claimed job has failed twice and is still IN_PROGRESS, and the get()
\* that followed found no job to return
C20_Witness ==
    /\ ret.op = "get" /\ ret.exc = "TypeError"
    /\ \E j \in queue :
          /\ j.status = "IN_PROGRESS"
          /\ j.failures = Threshold
          /\ claimed[j._id] = 1

\* C17: when save_attachment runs for a stored attachment without
\* depublication for which no blob exists at its reference (the record has no
\* file reference, or the reference names no stored blob), the content counts
\* as changed: a new blob is put and the file reference of the attachment
\* document is set to it.
C17_MissingBlobIsChanged ==
    [][\A stored \in attachments :
           (/\ "depublication" \notin DOMAIN stored
            /\ FileStored(DB, stored) = {}
            /\ log'.op = "save_attachment" /\ log'.exc = None
            /\ log'.oid = stored["_id"]) =>
              /\ log'.puts = 1
              /\ \E new \in attachments' :
                   /\ new["_id"] = stored["_id"]
                   /\ "file" \in DOMAIN new
                   /\ \E f \in files' \ files : f._id = new["file"]]_vars

----------------------------------------------------------------------------
(* Claims about submissions and sessions *)

\* x is a DBRef into the named collection
IsRef(x, collection) ==
    DOMAIN x = {"collection", "id"} /\ x.collection = collection

\* every entry of the list is a DBRef to a document of the collection
RefsInto(list, name, collection) ==
    \A i \in 1..Len(list) :
       IsRef(list[i], name) /\ \E d \in collection : d["_id"] = list[i].id

\* the documents of a collection for a natural key of a realm
Stored(collection, ags, key, value) ==
    { d \in collection : d["ags"] = ags /\ d[key] = value }

\* the reference to the stored document of a nested object
RefOf(collection, name, ags, key, obj) ==
    DBRef(name, (CHOOSE d \in Stored(collection, ags, key, obj[key]) : TRUE)["_id"])

RefsOf(collection, name, ags, key, list) ==
    [i \in 1..Len(list) |-> RefOf(collection, name, ags, key, list[i])]

\* the fresh representation of a submission: its fields, the realm, nested
\* attachments as references, the superordinate as a reference if stored
FreshSubmission(db, ags, x) ==
    LET f0 == Merge(x, [ags |-> ags])
        f1 == IF "attachments" \in DOMAIN x
                THEN Merge(f0, [attachments |->
                        RefsOf(db.attachments, "attachments", ags, "identifier",
                               x.attachments)])
                ELSE f0
    IN  IF /\ "superordinate" \in DOMAIN x
           /\ Stored(db.submissions, ags, "numeric_id",
                     x.superordinate.numeric_id) # {}
          THEN Merge(f1, [superordinate |->
                  RefOf(db.submissions, "submissions", ags, "numeric_id",
                        x.superordinate)])
          ELSE f1

\* the fresh representation of a session
FreshSession(db, ags, x) ==
    LET f0 == Merge(x, [ags |-> ags])
        f1 == IF "attachments" \in DOMAIN x
                THEN Merge(f0, [attachments |->
                        RefsOf(db.attachments, "attachments", ags, "identifier",
                               x.attachments)])
                ELSE f0
        item(i) ==
            IF "submissions" \in DOMAIN x.agendaitems[i]
              THEN Merge(x.agendaitems[i], [submissions |->
                      RefsOf(db.submissions, "submissions", ags, "numeric_id",
                             x.agendaitems[i].submissions)])
              ELSE x.agendaitems[i]
    IN  IF "agendaitems" \in DOMAIN x
          THEN Merge(f1, [agendaitems |->
                             [i \in 1..Len(x.agendaitems) |-> item(i)]])
          ELSE f1

\* C11: after save_submission or save_session returns, the attachments list of
\* the stored document holds only references to attachment documents, never
\* attachment data or content, and every entry of agendaitems[].submissions[]
\* of a stored session is a reference to a stored submission document; on
\* insert and on update, for every number of nested objects.
C11_OnlyReferencesStored ==
    /\ \A d \in submissions \cup sessions :
          "attachments" \in DOMAIN d =>
             RefsInto(d["attachments"], "attachments", attachments)
    /\ \A d \in sessions :
          "agendaitems" \in DOMAIN d =>
             \A m \in 1..Len(d["agendaitems"]) :
                "submissions" \in DOMAIN d["agendaitems"][m] =>
                   RefsInto(d["agendaitems"][m]["submissions"], "submissions",
                            submissions)

\* a save_session has updated a stored session: its agenda item holds two
\* submission references, and a stored submission holds two attachment
\* references
C11_Witness ==
    /\ log.op = "save_session" /\ log.exc = None /\ log.updates = 1
    /\ \E d \in sessions :
          /\ d["_id"] = log.oid
          /\ "agendaitems" \in DOMAIN d
          /\ Len(d["agendaitems"]) = 1
          /\ "submissions" \in DOMAIN d["agendaitems"][1]
          /\ Len(d["agendaitems"][1]["submissions"]) = 2
    /\ \E d \in submissions :
          "attachments" \in DOMAIN d /\ Len(d["attachments"]) = 2

\* each collection holds at most one document per realm and natural key
Unique(db) ==
    /\ \A d \in db.attachments :
          Stored(db.attachments, d["ags"], "identifier", d["identifier"]) = {d}
    /\ \A d \in db.submissions :
          Stored(db.submissions, d["ags"], "numeric_id", d["numeric_id"]) = {d}
    /\ \A d \in db.sessions :
          Stored(db.sessions, d["ags"], "numeric_id", d["numeric_id"]) = {d}

\* a save of an entity that is stored returns the _id of its document, adds
\* no document to its collection and leaves the collections without duplicates
ReturnsStored(r, before, after, stored) ==
    /\ r.exc = None /\ r.inserts = 0
    /\ \A d \in stored : r.oid = d["_id"]
    /\ Cardinality(after) = Cardinality(before)
    /\ Unique(r.db)

\* C12: after any sequence of save_attachment, save_submission and
\* save_session calls that do not overlap, each collection holds at most one
\* document per realm and natural key, and the save of an entity that is
\* already stored, directly or as a nested object of several parents, returns
\* the _id of the existing document and inserts none.
C12_NoDuplicates ==
    /\ Unique(DB)
    /\ \A ags \in Realms : \A x \in Submissions(ags) :
          LET stored == Stored(submissions, ags, "numeric_id", x.numeric_id)
              r == save_submission(DB, ags, x, FALSE)
          IN  stored # {} =>
                 ReturnsStored(r, submissions, r.db.submissions, stored)
    /\ \A x \in Sessions :
          LET stored == Stored(sessions, "ags1", "numeric_id", x.numeric_id)
              r == save_session(DB, "ags1", x, FALSE)
          IN  stored # {} => ReturnsStored(r, sessions, r.db.sessions, stored)
    /\ \A x \in {A1, A2} :
          LET stored == Stored(attachments, "ags1", "identifier", x.identifier)
              r == save_attachment(DB, "ags1", x, FALSE)
          IN  stored # {} => ReturnsStored(r, attachments, r.db.attachments, stored)

\* attachment a1 is stored once and referenced by both submissions of its
\* realm, and the other realm holds a submission with the number of one of them
C12_Witness ==
    /\ \E d \in submissions : \E e \in submissions :
          d["ags"] # e["ags"] /\ d["numeric_id"] = e["numeric_id"]
    /\ \E a \in attachments :
          /\ a["identifier"] = "a1"
          /\ \E d \in submissions : \E e \in submissions :
                /\ d["numeric_id"] # e["numeric_id"]
                /\ "attachments" \in DOMAIN d /\ "attachments" \in DOMAIN e
                /\ \E i \in 1..Len(d["attachments"]) : d["attachments"][i].id = a["_id"]
                /\ \E i \in 1..Len(e["attachments"]) : e["attachments"][i].id = a["_id"]

\* C13: save_submission of a submission naming a superordinate that is not
\* stored in the same realm succeeds and stores the superordinate data as
\* submitted; once the superordinate is stored, the next save_submission of
\* the child replaces the stored field with a reference to the document of
\* the superordinate.
C13_ForwardReference ==
    \A ags \in Realms : \A x \in Submissions(ags) :
       "superordinate" \in DOMAIN x =>
          LET r == save_submission(DB, ags, x, FALSE)
              sup == Stored(submissions, ags, "numeric_id",
                            x.superordinate.numeric_id)
          IN  /\ r.exc = None
              /\ \E child \in Stored(r.db.submissions, ags, "numeric_id",
                                     x.numeric_id) :
                    /\ child["_id"] = r.oid
                    /\ sup = {} => child["superordinate"] = x.superordinate
                    /\ \A p \in sup :
                          child["superordinate"] = DBRef("submissions", p["_id"])

\* the child was stored before its superordinate existed in its realm and now
\* holds a reference to it
C13_Witness ==
    /\ log.op = "save_submission" /\ log.exc = None
    /\ log.set = {"superordinate", "last_modified"}
    /\ \E child \in submissions : \E p \in submissions :
          /\ child["_id"] = log.oid
          /\ child["ags"] = p["ags"]
          /\ child["_id"] < p["_id"]
          /\ child["superordinate"] = DBRef("submissions", p["_id"])

\* the write a save makes to the stored document of its entity: none if no
\* field of the fresh representation other than last_modified is absent from
\* it or unequal to it, else a $set of exactly those fields and last_modified
MinimalUpdate(r, stored, fresh, after) ==
    LET diff == { k \in DOMAIN fresh \ {"last_modified"} :
                     k \notin DOMAIN stored \/ stored[k] # fresh[k] }
        new == [k \in DOMAIN stored \cup diff |->
                  IF k \in diff \cup {"last_modified"} THEN fresh[k] ELSE stored[k]]
    IN  /\ r.exc = None /\ r.oid = stored["_id"] /\ r.inserts = 0
        /\ IF diff = {}
             THEN r.updates = 0 /\ r.set = {} /\ stored \in after
             ELSE /\ r.updates = 1
                  /\ r.set = diff \cup {"last_modified"}
                  /\ new \in after
                  /\ stored \notin after

\* C14: when a stored submission or session exists, the update written to it
\* sets exactly the fields of the fresh representation that are absent from
\* the stored document or unequal to it, last_modified left out of the
\* comparison, plus last_modified; when there is no such field, also when only
\* last_modified differs, the document is not written and its _id is returned.
C14_MinimalUpdate ==
    /\ \A ags \in Realms : \A x \in Submissions(ags) :
          \A stored \in Stored(submissions, ags, "numeric_id", x.numeric_id) :
             LET r == save_submission(DB, ags, x, FALSE)
             IN  MinimalUpdate(r, stored, FreshSubmission(r.db, ags, x),
                               r.db.submissions)
    /\ \A x \in Sessions :
          \A stored \in Stored(sessions, "ags1", "numeric_id", x.numeric_id) :
             LET r == save_session(DB, "ags1", x, FALSE)
             IN  MinimalUpdate(r, stored, FreshSession(r.db, "ags1", x),
                               r.db.sessions)

\* a save_submission has rewritten the identifier of a stored submission and
\* nothing else but last_modified
C14_Witness ==
    /\ log.op = "save_submission" /\ log.exc = None
    /\ log.updates = 1 /\ log.inserts = 0
    /\ log.set = {"identifier", "last_modified"}
    /\ \E d \in submissions :
          d["_id"] = log.oid /\ d["identifier"] = "i2" /\ d["last_modified"] = 1

----------------------------------------------------------------------------
(* Claims about draining the queue *)

\* no job is OPEN and get() has returned every job ever enqueued exactly once
Drained ==
    /\ QueueLen(MainQueue) = 0
    /\ \A i \in 1..(nextId - 1) : claimed[i] = 1

====
